---------------------------- MODULE Spec2Model ----------------------------
(***************************************************************************)
(* A model of rimworld_stego.py: the three codecs that hide a payload in   *)
(* a RimWorld save file (grass fields, whitespace between tags, decimal    *)
(* fractions of floating-point elements).                                  *)
(*                                                                         *)
(* Python strings are sequences of one-character strings, so that every    *)
(* conversion the code performs (str, int, bin, zfill, Decimal, split,     *)
(* join) is computed on text as the code computes it.  The code is         *)
(* Python 2: str(float) prints 12 significant digits.                      *)
(***************************************************************************)
EXTENDS Integers, Sequences, FiniteSets

(***************************************************************************)
(* Bounds of the model.                                                    *)
(***************************************************************************)
MaxGrass == 2          \* at most this many grass elements in a save file
MaxGrassBytes == 7     \* at most this many payload bytes for the grass scheme
MaxFloats == 5         \* at most this many floating-point elements
MaxFloatBytes == 2     \* at most this many payload bytes for the float scheme
MaxLines == 10         \* at most this many pretty-printed cover lines
MaxWsBytes == 1        \* at most this many payload bytes for the whitespace scheme

(***************************************************************************)
(* Python text and number primitives.                                      *)
(***************************************************************************)
Min(a, b) == IF a < b THEN a ELSE b

Digits == <<"0", "1", "2", "3", "4", "5", "6", "7", "8", "9">>

DigitChar(d) == Digits[d + 1]

DigitVal(c) == CHOOSE d \in 0..9 : Digits[d + 1] = c

\* s[a:b] for 0 <= a, with Python's clamping of b to len(s)
Slice(s, a, b) == SubSeq(s, a + 1, Min(b, Len(s)))

\* s[a:]
SliceFrom(s, a) == SubSeq(s, a + 1, Len(s))

\* '0' * k (the empty string when k <= 0)
Zeros(k) == [i \in 1..k |-> "0"]

RECURSIVE Pow(_, _)
Pow(b, e) == IF e = 0 THEN 1 ELSE b * Pow(b, e - 1)

\* str(n) of a non-negative int
RECURSIVE StrNat(_)
StrNat(n) == IF n < 10 THEN <<DigitChar(n)>>
             ELSE Append(StrNat(n \div 10), DigitChar(n % 10))

\* str(n) of an int
StrInt(n) == IF n < 0 THEN <<"-">> \o StrNat(-n) ELSE StrNat(n)

\* int(s) of a string of decimal digits
RECURSIVE ParseNat(_)
ParseNat(s) == IF s = <<>> THEN 0
               ELSE 10 * ParseNat(SubSeq(s, 1, Len(s) - 1)) + DigitVal(s[Len(s)])

\* bin(n)[2:] of a non-negative int
RECURSIVE Bin(_)
Bin(n) == IF n < 2 THEN <<DigitChar(n)>>
          ELSE Append(Bin(n \div 2), DigitChar(n % 2))

\* s.zfill(w): pads on the left, never truncates
ZFill(s, w) == Zeros(w - Len(s)) \o s

\* int(s, 2) of a non-empty string of bits
RECURSIVE FromBin(_)
FromBin(s) == IF s = <<>> THEN 0
              ELSE 2 * FromBin(SubSeq(s, 1, Len(s) - 1)) + DigitVal(s[Len(s)])

\* ''.join([bin(x)[2:].zfill(8) for x in bytes])
RECURSIVE BytesToBits(_)
BytesToBits(bs) == IF bs = <<>> THEN <<>>
                   ELSE ZFill(Bin(bs[1]), 8) \o BytesToBits(Tail(bs))

\* the loop "while index < len(bits): bytes.append(int(bits[index:index+8], 2))"
RECURSIVE BitsToBytes(_)
BitsToBytes(bs) == IF bs = <<>> THEN <<>>
                   ELSE <<FromBin(Slice(bs, 0, 8))>> \o BitsToBytes(SliceFrom(bs, Min(8, Len(bs))))

\* s.find(c) + 1: the position of the first c in s, 0 when there is none
IndexOf(s, c) == IF \E i \in 1..Len(s) : s[i] = c
                 THEN CHOOSE i \in 1..Len(s) : s[i] = c /\ \A j \in 1..(i - 1) : s[j] # c
                 ELSE 0

(***************************************************************************)
(* decimal.Decimal: a sign, a coefficient and an exponent.                 *)
(***************************************************************************)
\* Decimal(text) of "[-]digits[.digits][E[+-]digits]"
DecimalParse(text) ==
    LET neg   == text # <<>> /\ text[1] = "-"
        body  == IF neg THEN Tail(text) ELSE text
        e     == IndexOf(body, "E")
        mant  == IF e = 0 THEN body ELSE SubSeq(body, 1, e - 1)
        etxt  == IF e = 0 THEN <<>> ELSE SliceFrom(body, e)
        eneg  == etxt # <<>> /\ etxt[1] = "-"
        edig  == IF etxt # <<>> /\ etxt[1] \in {"-", "+"} THEN Tail(etxt) ELSE etxt
        eval  == IF eneg THEN -ParseNat(edig) ELSE ParseNat(edig)
        dot   == IndexOf(mant, ".")
        ipart == IF dot = 0 THEN mant ELSE SubSeq(mant, 1, dot - 1)
        fpart == IF dot = 0 THEN <<>> ELSE SliceFrom(mant, dot)
    IN [neg |-> neg, coef |-> ParseNat(ipart \o fpart), exp |-> eval - Len(fpart)]

\* Decimal(n) / Decimal(100000000): the exact quotient, its exponent brought
\* as close to 0 as the digits allow (trailing zeros dropped)
RECURSIVE DecimalReduce(_, _)
DecimalReduce(coef, exp) ==
    IF coef = 0 THEN [neg |-> FALSE, coef |-> 0, exp |-> 0]
    ELSE IF exp < 0 /\ coef % 10 = 0 THEN DecimalReduce(coef \div 10, exp + 1)
    ELSE [neg |-> FALSE, coef |-> coef, exp |-> exp]

\* str(d) of a non-negative Decimal (Decimal.__str__)
DecimalStr(d) ==
    LET digs       == StrNat(d.coef)
        leftdigits == d.exp + Len(digs)
        dotplace   == IF d.exp <= 0 /\ leftdigits > -6 THEN leftdigits ELSE 1
        mant       == IF dotplace <= 0 THEN <<"0", ".">> \o Zeros(-dotplace) \o digs
                      ELSE IF dotplace >= Len(digs) THEN digs \o Zeros(dotplace - Len(digs))
                      ELSE SubSeq(digs, 1, dotplace) \o <<".">> \o SliceFrom(digs, dotplace)
        e          == leftdigits - dotplace
        etxt       == IF e = 0 THEN <<>>
                      ELSE <<"E">> \o (IF e < 0 THEN <<"-">> ELSE <<"+">>)
                           \o StrNat(IF e < 0 THEN -e ELSE e)
    IN mant \o etxt

\* floor(d * 10^k) of a Decimal, for k >= 0
DecimalScaledFloor(d, k) ==
    LET signed == IF d.neg THEN -d.coef ELSE d.coef
    IN IF d.exp + k >= 0 THEN signed * Pow(10, d.exp + k)
       ELSE signed \div Pow(10, -(d.exp + k))


(***************************************************************************)
(* Field codec: PlantGrass / PlantTallGrass elements.  An element is its   *)
(* children's texts: element[0] (def), element[1] (id), element[4]         *)
(* (health), element[5] (growth) and, when the element has a seventh       *)
(* child, element[6] (age).                                                *)
(***************************************************************************)
PlantGrass == <<"P", "l", "a", "n", "t", "G", "r", "a", "s", "s">>

PlantTallGrass == <<"P", "l", "a", "n", "t", "T", "a", "l", "l", "G", "r", "a", "s", "s">>

\* the grass elements a cover file may hold
CoverGrasses ==
    { [def |-> PlantTallGrass, id |-> PlantTallGrass \o <<"4", "8", "2", "1">>,
       health |-> <<"8", "5">>, growth |-> <<"0", ".", "9", "3", "1", "2">>,
       hasAge |-> TRUE, age |-> <<"2", "5", "0", "3", "1", "7">>],
      [def |-> PlantGrass, id |-> PlantGrass \o <<"0", "2", "5", "6">>,
       health |-> <<"4", "0">>, growth |-> <<"0", ".", "0", "5">>,
       hasAge |-> FALSE, age |-> <<>>],
      [def |-> PlantGrass, id |-> PlantGrass \o <<"1", "7">>,
       health |-> <<"5">>, growth |-> <<"1">>,
       hasAge |-> TRUE, age |-> <<"0">>] }

\* a PadTo70 that appends nothing
PadTo70Missing(bs, bit_index) == bs

\* line 61-62: zero-pad the bits left from bit_index up to a multiple of 70
PadTo70(bs, bit_index) ==
    LET rest == Len(SliceFrom(bs, bit_index))
    IN IF rest < 70 THEN bs \o Zeros(((rest + 69) \div 70) * 70 - rest) ELSE bs

\* set_grass_bits: the element as rewritten and the bit_index returned;
\* int('', 2) raises ValueError when no bit is left at bit_index
set_grass_bits(element, bs, bit_index) ==
    LET padded == PadTo70(bs, bit_index)
        id     == FromBin(Slice(padded, bit_index, bit_index + 18))
        health == FromBin(Slice(padded, bit_index + 18, bit_index + 24)) + 5
        growth == DecimalReduce(FromBin(Slice(padded, bit_index + 24, bit_index + 50)), -8)
        age    == FromBin(Slice(padded, bit_index + 50, bit_index + 70))
    IN IF Len(padded) <= bit_index
       THEN [error |-> TRUE, element |-> element, bit_index |-> bit_index]
       ELSE [error |-> FALSE,
             element |-> [def |-> element.def,
                          id |-> element.def \o StrInt(id),
                          health |-> StrInt(health),
                          growth |-> DecimalStr(growth),
                          hasAge |-> element.hasAge,
                          age |-> IF element.hasAge THEN StrInt(age) ELSE element.age],
             bit_index |-> IF element.hasAge THEN bit_index + 70 ELSE bit_index + 50]

\* a GrassPayloadSize that forgets the capacity of the elements
GrassPayloadSizeUnclamped(n, len) == len * 8

\* line 102: the number of payload bits the header announces
GrassPayloadSize(n, len) == Min(n * 70 - 22, len * 8)

\* line 99-103: the 22-bit header followed by all the payload's bits
GrassBits(elems, payload) ==
    ZFill(Bin(GrassPayloadSize(Len(elems), Len(payload))), 22) \o BytesToBits(payload)

\* line 109: the loop of bytes_to_grasses goes on to write this element
GrassWriteMore(bit_index, num_bits) == bit_index < num_bits

\* get_grass_bits: the bits an element holds
get_grass_bits(element) ==
    LET id     == ParseNat(SliceFrom(element.id, Len(element.def)))
        health == ParseNat(element.health) - 5
        growth == DecimalScaledFloor(DecimalParse(element.growth), 8)
    IN ZFill(Bin(id), 18) \o ZFill(Bin(health), 6) \o ZFill(Bin(growth), 26)
       \o (IF element.hasAge THEN ZFill(Bin(ParseNat(element.age)), 20) ELSE <<>>)

\* line 160: the number of bits to decode, header included
GrassNumBits(elems) == FromBin(Slice(get_grass_bits(elems[1]), 0, 22)) + 22

\* line 167: the loop of bytes_from_grasses stops reading
GrassReadEnough(bs, num_bits) == Len(bs) >= num_bits

\* line 173-174: the zero padding bytes_from_grasses appends
GrassDecodePad(bs) ==
    IF Len(bs) % 8 # 0 THEN bs \o Zeros(((Len(bs) + 7) \div 8) - Len(bs)) ELSE bs

(***************************************************************************)
(* Whitespace codec.  A space is a zero and a tab is a one; the encoder    *)
(* ends every line with "\n\r".                                            *)
(***************************************************************************)
SP == " "

TAB == "\t"

LF == "\n"

CR == "\r"

Glyphs == {SP, TAB}

\* s.replace(a, b) for one-character a and b
Replace(s, a, b) == [i \in 1..Len(s) |-> IF s[i] = a THEN b ELSE s[i]]

\* bytes_to_whitespace
bytes_to_whitespace(bs) == Replace(Replace(BytesToBits(bs), "0", SP), "1", TAB)

\* whitespace_to_bytes; int(..., 2) raises ValueError on a character that is
\* neither '0' nor '1'
whitespace_to_bytes(ws) ==
    LET message == Replace(Replace(ws, SP, "0"), TAB, "1")
        padded  == IF Len(message) % 8 # 0
                   THEN message \o Zeros(8 - (Len(message) % 8)) ELSE message
    IN IF \E i \in 1..Len(padded) : padded[i] \notin {"0", "1"}
       THEN [error |-> "ValueError", bytes |-> <<>>]
       ELSE [error |-> "none", bytes |-> BitsToBytes(padded)]

\* the lines line 303 may produce: etree.tostring(..., pretty_print=True)
\* prints one tag or one leaf element per line, indented
CoverLines == { <<"<", "a", ">">>,
                <<SP, SP, "<", "b", ">", SP, "x", "<", "/", "b", ">">> }

\* '\n\r'.join(lines)
RECURSIVE Join(_)
Join(lines) == IF lines = <<>> THEN <<>>
               ELSE IF Len(lines) = 1 THEN lines[1]
               ELSE lines[1] \o <<LF, CR>> \o Join(Tail(lines))

\* line 305-307: lines index+1 .. minimum, each with its glyph and "\n\r"
RECURSIVE Interleave(_, _, _, _)
Interleave(lines, ws, index, minimum) ==
    IF index >= minimum THEN <<>>
    ELSE lines[index + 1] \o <<ws[index + 1]>> \o <<LF, CR>>
         \o Interleave(lines, ws, index + 1, minimum)

\* a LeftoverGlyphs that starts one glyph too late
LeftoverGlyphsSkipOne(ws, index) == SliceFrom(ws, index + 1)

\* line 311: the glyphs left when the lines are used up
LeftoverGlyphs(ws, index) == SliceFrom(ws, index)

\* intersperse_whitespace, from line 304 on (cover_list is the list of lines)
intersperse_whitespace(lines, ws) ==
    LET minimum == Min(Len(lines), Len(ws))
    IN Interleave(lines, ws, 0, minimum)
       \o (IF Len(lines) > Len(ws)
           THEN Join(SliceFrom(lines, minimum)) \o <<LF, CR>>
           ELSE LeftoverGlyphs(ws, minimum))

\* text.split('\n\r'): from, the start of the piece being read; i, the scan
RECURSIVE SplitFrom(_, _, _)
SplitFrom(text, from, i) ==
    IF i > Len(text) THEN <<SubSeq(text, from, Len(text))>>
    ELSE IF i < Len(text) /\ text[i] = LF /\ text[i + 1] = CR
         THEN <<SubSeq(text, from, i - 1)>> \o SplitFrom(text, i + 2, i + 2)
         ELSE SplitFrom(text, from, i + 1)

Split(text) == SplitFrom(text, 1, 1)

\* line 325-331: the for loop over encoded_lines[:-1]; each[-1] raises
\* IndexError on an empty line
RECURSIVE ScanLines(_, _, _)
ScanLines(lines, i, acc) ==
    IF i > Len(lines) THEN [end |-> "exhausted", whitespace |-> acc]
    ELSE IF lines[i] = <<>> THEN [end |-> "IndexError", whitespace |-> acc]
    ELSE IF lines[i][Len(lines[i])] \in Glyphs
         THEN ScanLines(lines, i + 1, Append(acc, lines[i][Len(lines[i])]))
         ELSE [end |-> "break", whitespace |-> acc]

\* line 333-346: the else branch of the loop.  encoded_text[-1] raises
\* IndexError on an empty text, which the bare except swallows; the two
\* Exception(...) objects are built and never raised
FinalFragment(encoded_text, encoded_lines) ==
    IF encoded_text = <<>> THEN <<>> ELSE encoded_lines[Len(encoded_lines)]

\* extract_whitespace
extract_whitespace(encoded_text) ==
    LET encoded_lines == Split(encoded_text)
        scan == ScanLines(SubSeq(encoded_lines, 1, Len(encoded_lines) - 1), 1, <<>>)
    IN IF scan.end = "IndexError" THEN [error |-> "IndexError", whitespace |-> <<>>]
       ELSE IF scan.end = "break" THEN [error |-> "none", whitespace |-> scan.whitespace]
       ELSE [error |-> "none",
             whitespace |-> scan.whitespace \o FinalFragment(encoded_text, encoded_lines)]

(***************************************************************************)
(* Fractional codec.  A float is held exactly, in thousandths.             *)
(***************************************************************************)
\* the floating-point texts a cover file may hold
CoverFloats == { <<"7", ".", "0">>,
                 <<"-", "3", ".", "9">>,
                 <<"0", ".", "0", "0", "2">> }

\* math.floor(float(text))
FloorOfText(text) == DecimalScaledFloor(DecimalParse(text), 0)

\* str(x) of the Python 2 float x = thousandths / 1000: '%.12g', and ".0"
\* after a value with no fraction.  Exact for |x| < 10^9.
StrFloat(thousandths) ==
    LET a    == IF thousandths < 0 THEN -thousandths ELSE thousandths
        f    == a % 1000
        frac == IF f = 0 THEN <<"0">>
                ELSE IF f % 100 = 0 THEN StrNat(f \div 100)
                ELSE IF f % 10 = 0 THEN ZFill(StrNat(f \div 10), 2)
                ELSE ZFill(StrNat(f), 3)
    IN (IF thousandths < 0 THEN <<"-">> ELSE <<>>) \o StrNat(a \div 1000) \o <<".">> \o frac

\* line 443-446: the number of payload bytes stored
FloatNumBytes(n, len) == IF len + 4 > n THEN n - 4 ELSE len

\* a HeaderByte that stores the count least significant byte first
HeaderByteLittleEndian(num_bytes, i) == (num_bytes \div Pow(2, i * 8)) % 256

\* line 450: (num_bytes >> ((3 - i) * 8)) & 255
HeaderByte(num_bytes, i) == (num_bytes \div Pow(2, (3 - i) * 8)) % 256

\* line 447-451: the bytes to store, header first
FloatBytes(num_bytes, payload) ==
    [i \in 1..4 |-> HeaderByte(num_bytes, i - 1)] \o payload

\* a FloatWrite that adds the byte to the cover value itself, not to its floor
FloatWriteBlended(text, b) == StrFloat(DecimalScaledFloor(DecimalParse(text), 3) + b)

\* line 454: bytes[index] + math.floor(float(floats[index].text)), as text
FloatWrite(text, b) == StrFloat(FloorOfText(text) * 1000 + b)

\* a bytes_to_floats whose loop runs over every carrier, storing 0 past the payload
bytes_to_floats_all(fs, payload) ==
    LET num_bytes == FloatNumBytes(Len(fs), Len(payload))
        bs        == FloatBytes(num_bytes, payload)
    IN [i \in 1..Len(fs) |-> FloatWrite(fs[i], IF i <= num_bytes + 4 THEN bs[i] ELSE 0)]

\* bytes_to_floats
bytes_to_floats(fs, payload) ==
    LET num_bytes == FloatNumBytes(Len(fs), Len(payload))
        bs        == FloatBytes(num_bytes, payload)
    IN [i \in 1..Len(fs) |-> IF i <= num_bytes + 4 THEN FloatWrite(fs[i], bs[i]) ELSE fs[i]]

\* line 474, 478: int((Decimal(text) - Decimal(math.floor(Decimal(text)))) * 1000)
FloatRead(text) ==
    LET d == DecimalParse(text)
    IN DecimalScaledFloor(d, 3) - 1000 * DecimalScaledFloor(d, 0)

\* line 475-476: the header's value
HeaderValue(fs) ==
    FloatRead(fs[1]) * Pow(2, 24) + FloatRead(fs[2]) * Pow(2, 16)
    + FloatRead(fs[3]) * Pow(2, 8) + FloatRead(fs[4])

\* floats_to_bytes(floats): floats[index] raises IndexError past the end
floats_to_bytes(fs) ==
    IF Len(fs) < 4 THEN [error |-> "IndexError", bytes |-> <<>>]
    ELSE IF HeaderValue(fs) + 4 > Len(fs) THEN [error |-> "IndexError", bytes |-> <<>>]
    ELSE [error |-> "none", bytes |-> [i \in 1..(HeaderValue(fs) + 4) |-> FloatRead(fs[i])]]

(***************************************************************************)
(* The state: one run of one scheme on one cover file and one payload.     *)
(***************************************************************************)
VARIABLES
    scheme,        \* "grass", "floats" or "whitespace"
    pc,            \* where the run stands
    payload,       \* the bytes to hide
    cover,         \* the carriers as they were before encoding
    elements,      \* grass scheme: the PlantGrass elements of the tree
    floats,        \* float scheme: the texts of the floating-point elements
    cover_list,    \* whitespace scheme: the lines of the pretty-printed cover
    bits,          \* the local bits of bytes_to_grasses / bytes_from_grasses
    num_bits,      \* the local num_bits of the same
    bit_index,     \* bytes_to_grasses: the bit cursor
    index,         \* the number of elements the running loop has passed
    whitespace,    \* whitespace scheme: the glyph string
    encoded_text,  \* whitespace scheme: the text written to the result file
    bytes,         \* the bytes the decoder returned
    outcome        \* "none", or the exception that ended the run

vars == <<scheme, pc, payload, cover, elements, floats, cover_list, bits, num_bits,
          bit_index, index, whitespace, encoded_text, bytes, outcome>>

\* the values a payload byte takes in the grass and whitespace schemes
SomeBytes == {37, 218}

\* the values a payload byte takes in the float scheme
SomeFloatBytes == {0, 37, 255}

\* all sequences over S of a length from lo to hi
SeqsOf(S, lo, hi) == UNION { [1..n -> S] : n \in lo..hi }

Idle ==
    /\ bits = <<>> /\ num_bits = 0 /\ bit_index = 0 /\ index = 0
    /\ whitespace = <<>> /\ encoded_text = <<>> /\ bytes = <<>> /\ outcome = "none"

\* bytes_from_grasses reads elements[0]: the cover holds at least one grass
InitGrass ==
    /\ scheme = "grass"
    /\ elements \in SeqsOf(CoverGrasses, 1, MaxGrass)
    /\ payload \in SeqsOf(SomeBytes, 0, MaxGrassBytes)
    /\ cover = elements
    /\ floats = <<>> /\ cover_list = <<>>

InitFloats ==
    /\ scheme = "floats"
    /\ floats \in SeqsOf(CoverFloats, 0, MaxFloats)
    /\ payload \in SeqsOf(SomeFloatBytes, 0, MaxFloatBytes)
    /\ cover = floats
    /\ elements = <<>> /\ cover_list = <<>>

\* the pretty-printed text ends with "\n", so the last line is empty
InitWhitespace ==
    /\ scheme = "whitespace"
    /\ \E ls \in SeqsOf(CoverLines, 1, MaxLines - 1) : cover_list = Append(ls, <<>>)
    /\ payload \in SeqsOf(SomeBytes, 0, MaxWsBytes)
    /\ cover = cover_list
    /\ elements = <<>> /\ floats = <<>>

Init == /\ pc = "cover"
        /\ Idle
        /\ (InitGrass \/ InitFloats \/ InitWhitespace)

(***************************************************************************)
(* bytes_to_grasses                                                        *)
(***************************************************************************)
\* line 98-106
bytes_to_grasses_begin ==
    /\ scheme = "grass" /\ pc = "cover"
    /\ bits' = GrassBits(elements, payload)
    /\ num_bits' = GrassPayloadSize(Len(elements), Len(payload)) + 22
    /\ bit_index' = 0
    /\ index' = 0
    /\ pc' = "writing"
    /\ UNCHANGED <<scheme, payload, cover, elements, floats, cover_list, whitespace,
                   encoded_text, bytes, outcome>>

\* line 107-111: one pass of the loop that writes an element
bytes_to_grasses_write ==
    /\ scheme = "grass" /\ pc = "writing"
    /\ index < Len(elements)
    /\ GrassWriteMore(bit_index, num_bits)
    /\ LET r == set_grass_bits(elements[index + 1], bits, bit_index)
       IN IF r.error
          THEN /\ outcome' = "ValueError"
               /\ pc' = "crashed"
               /\ UNCHANGED <<elements, bit_index, index>>
          ELSE /\ elements' = [elements EXCEPT ![index + 1] = r.element]
               /\ bit_index' = r.bit_index
               /\ index' = index + 1
               /\ UNCHANGED <<pc, outcome>>
    /\ UNCHANGED <<scheme, payload, cover, floats, cover_list, bits, num_bits, whitespace,
                   encoded_text, bytes>>

\* line 109-110: the break
bytes_to_grasses_break ==
    /\ scheme = "grass" /\ pc = "writing"
    /\ index < Len(elements)
    /\ ~GrassWriteMore(bit_index, num_bits)
    /\ pc' = "encoded"
    /\ UNCHANGED <<scheme, payload, cover, elements, floats, cover_list, bits, num_bits,
                   bit_index, index, whitespace, encoded_text, bytes, outcome>>

\* line 107, 112: the elements are used up
bytes_to_grasses_end ==
    /\ scheme = "grass" /\ pc = "writing"
    /\ index = Len(elements)
    /\ pc' = "encoded"
    /\ UNCHANGED <<scheme, payload, cover, elements, floats, cover_list, bits, num_bits,
                   bit_index, index, whitespace, encoded_text, bytes, outcome>>

(***************************************************************************)
(* bytes_from_grasses                                                      *)
(***************************************************************************)
\* line 160-164
bytes_from_grasses_begin ==
    /\ scheme = "grass" /\ pc = "encoded"
    /\ num_bits' = GrassNumBits(elements)
    /\ bits' = SliceFrom(get_grass_bits(elements[1]), 22)
    /\ index' = 1
    /\ pc' = "reading"
    /\ UNCHANGED <<scheme, payload, cover, elements, floats, cover_list, bit_index,
                   whitespace, encoded_text, bytes, outcome>>

\* line 165-170: one pass of the loop that reads an element
bytes_from_grasses_read ==
    /\ scheme = "grass" /\ pc = "reading"
    /\ index < Len(elements)
    /\ ~GrassReadEnough(bits, num_bits)
    /\ bits' = bits \o get_grass_bits(elements[index + 1])
    /\ index' = index + 1
    /\ UNCHANGED <<scheme, pc, payload, cover, elements, floats, cover_list, num_bits,
                   bit_index, whitespace, encoded_text, bytes, outcome>>

\* line 165-168, 171-181: the loop ends; slice, pad, convert, return
bytes_from_grasses_return ==
    /\ scheme = "grass" /\ pc = "reading"
    /\ index >= Len(elements) \/ GrassReadEnough(bits, num_bits)
    /\ bits' = GrassDecodePad(Slice(bits, 0, num_bits - 22))
    /\ bytes' = BitsToBytes(bits')
    /\ pc' = "decoded"
    /\ UNCHANGED <<scheme, payload, cover, elements, floats, cover_list, num_bits,
                   bit_index, index, whitespace, encoded_text, outcome>>

(***************************************************************************)
(* encode_in_floating_point / decode_from_floating_point                   *)
(***************************************************************************)
\* bytes_to_floats(my_floats, payload)
encode_in_floating_point ==
    /\ scheme = "floats" /\ pc = "cover"
    /\ floats' = bytes_to_floats(floats, payload)
    /\ pc' = "encoded"
    /\ UNCHANGED <<scheme, payload, cover, elements, cover_list, bits, num_bits, bit_index,
                   index, whitespace, encoded_text, bytes, outcome>>

\* line 517-521: floats_to_bytes(my_floats)[4:], of an encoded file or of a
\* file nothing was hidden in
decode_from_floating_point ==
    /\ scheme = "floats" /\ pc \in {"cover", "encoded"}
    /\ LET r == floats_to_bytes(floats)
       IN IF r.error # "none"
          THEN /\ outcome' = r.error
               /\ pc' = IF pc = "encoded" THEN "crashed" ELSE "crashed_cover"
               /\ UNCHANGED bytes
          ELSE /\ bytes' = SliceFrom(r.bytes, 4)
               /\ pc' = IF pc = "encoded" THEN "decoded" ELSE "decoded_cover"
               /\ UNCHANGED outcome
    /\ UNCHANGED <<scheme, payload, cover, elements, floats, cover_list, bits, num_bits,
                   bit_index, index, whitespace, encoded_text>>

(***************************************************************************)
(* encode / decode (whitespace)                                            *)
(***************************************************************************)
\* line 403
encode_glyphs ==
    /\ scheme = "whitespace" /\ pc = "cover"
    /\ whitespace' = bytes_to_whitespace(payload)
    /\ pc' = "glyphs"
    /\ UNCHANGED <<scheme, payload, cover, elements, floats, cover_list, bits, num_bits,
                   bit_index, index, encoded_text, bytes, outcome>>

\* line 404-408
encode_intersperse ==
    /\ scheme = "whitespace" /\ pc = "glyphs"
    /\ encoded_text' = intersperse_whitespace(cover_list, whitespace)
    /\ pc' = "encoded"
    /\ UNCHANGED <<scheme, payload, cover, elements, floats, cover_list, bits, num_bits,
                   bit_index, index, whitespace, bytes, outcome>>

\* line 420-422
decode_extract ==
    /\ scheme = "whitespace" /\ pc = "encoded"
    /\ LET r == extract_whitespace(encoded_text)
       IN /\ whitespace' = r.whitespace
          /\ outcome' = r.error
          /\ pc' = IF r.error = "none" THEN "extracted" ELSE "crashed"
    /\ UNCHANGED <<scheme, payload, cover, elements, floats, cover_list, bits, num_bits,
                   bit_index, index, encoded_text, bytes>>

\* line 425
decode_bytes ==
    /\ scheme = "whitespace" /\ pc = "extracted"
    /\ LET r == whitespace_to_bytes(whitespace)
       IN /\ bytes' = r.bytes
          /\ outcome' = r.error
          /\ pc' = IF r.error = "none" THEN "decoded" ELSE "crashed"
    /\ UNCHANGED <<scheme, payload, cover, elements, floats, cover_list, bits, num_bits,
                   bit_index, index, whitespace, encoded_text>>

\* what a file handed to decode may hold after its last "\n\r": nothing, glyphs
\* only, a tag, a tag followed by a space
FileTails == { <<>>,
               <<SP, TAB>>,
               <<"<", "a", ">">>,
               <<"<", "a", ">", SP>> }

\* line 420-422: the text f.read() returns for a file whose lines each end in
\* a glyph and "\n\r", followed by a tail; without glyphs the file is the tail
FileText(lines, ws, tail) ==
    Interleave(lines, ws, 0, Min(Len(ws), Len(lines) - 1)) \o tail

\* line 420-422: decode of a file that encode did not write as it stands
decode_file_extract ==
    /\ scheme = "whitespace" /\ pc = "cover"
    /\ \E tail \in FileTails :
          /\ encoded_text' = FileText(cover_list, bytes_to_whitespace(payload), tail)
          /\ LET r == extract_whitespace(encoded_text')
             IN /\ whitespace' = r.whitespace
                /\ outcome' = r.error
                /\ pc' = IF r.error = "none" THEN "file_extracted" ELSE "file_crashed"
    /\ UNCHANGED <<scheme, payload, cover, elements, floats, cover_list, bits, num_bits,
                   bit_index, index, bytes>>

\* line 425, for the glyphs of such a file
decode_file_bytes ==
    /\ scheme = "whitespace" /\ pc = "file_extracted"
    /\ LET r == whitespace_to_bytes(whitespace)
       IN /\ bytes' = r.bytes
          /\ outcome' = r.error
          /\ pc' = IF r.error = "none" THEN "file_decoded" ELSE "file_crashed"
    /\ UNCHANGED <<scheme, payload, cover, elements, floats, cover_list, bits, num_bits,
                   bit_index, index, whitespace, encoded_text>>

Next ==
    \/ bytes_to_grasses_begin
    \/ bytes_to_grasses_write
    \/ bytes_to_grasses_break
    \/ bytes_to_grasses_end
    \/ bytes_from_grasses_begin
    \/ bytes_from_grasses_read
    \/ bytes_from_grasses_return
    \/ encode_in_floating_point
    \/ decode_from_floating_point
    \/ encode_glyphs
    \/ encode_intersperse
    \/ decode_extract
    \/ decode_bytes
    \/ decode_file_extract
    \/ decode_file_bytes

Spec == Init /\ [][Next]_vars

(***************************************************************************)
(* Definitions the claims are stated with.                                 *)
(***************************************************************************)
\* the bits of the first k elements, as bytes_from_grasses accumulates them
RECURSIVE BitsRead(_, _)
BitsRead(elems, k) ==
    IF k = 0 THEN <<>> ELSE BitsRead(elems, k - 1) \o get_grass_bits(elems[k])

\* the bits the first k elements take from the cursor: 70 with age, 50 without
RECURSIVE CursorAfter(_, _)
CursorAfter(elems, k) ==
    IF k = 0 THEN 0
    ELSE CursorAfter(elems, k - 1) + (IF elems[k].hasAge THEN 70 ELSE 50)

\* bs right-padded with zero bits to a multiple of 8
PadToByte(bs) == bs \o Zeros((8 - (Len(bs) % 8)) % 8)

\* the part of a decimal text before its point
IntegerPart(text) == SubSeq(text, 1, IndexOf(text, ".") - 1)

\* the digits after the point of a decimal text, read as thousandths
FractionThousandths(text) ==
    LET f == SliceFrom(text, IndexOf(text, "."))
    IN ParseNat(SubSeq(f \o <<"0", "0", "0">>, 1, 3))

\* the value of a decimal text, in thousandths
Thousandths(text) == DecimalScaledFloor(DecimalParse(text), 3)

\* the number of carriers bytes_to_floats writes for the run's cover and payload
FloatsWritten == Min(Len(payload), Len(cover) - 4) + 4

(***************************************************************************)
(* C1: Field round trip.  For n >= 1 elements, each with or without the    *)
(* age child, and a payload of L bytes with 8*L <= 70*n - 22, decoding     *)
(* the encoded elements returns exactly the payload.                       *)
(***************************************************************************)
C1_FieldRoundTrip ==
    (scheme = "grass" /\ pc = "decoded" /\ Len(cover) >= 1
     /\ 8 * Len(payload) <= 70 * Len(cover) - 22)
        => bytes = payload

C3_WhitespaceRoundTrip ==
    (scheme = "whitespace" /\ pc \in {"decoded", "crashed"}
     /\ 8 * Len(payload) <= Len(cover_list))
        => (pc = "decoded" /\ bytes = payload)

C5_NonDestructiveTail ==
    /\ (scheme = "grass" /\ pc \in {"encoded", "reading", "decoded"})
          => \A i \in 1..Len(elements) :
                (\E k \in 1..(i - 1) :
                    CursorAfter(cover, k) >= Min(70 * Len(cover) - 22, 8 * Len(payload)) + 22)
                   => elements[i] = cover[i]
    /\ (scheme = "floats" /\ pc \in {"encoded", "decoded", "crashed"})
          => /\ Len(floats) = Len(cover)
             /\ \A i \in 1..Len(floats) : i > FloatsWritten => floats[i] = cover[i]

\* one byte was encoded in the first of two elements and the second is untouched
C5_Witness ==
    /\ scheme = "grass" /\ pc = "encoded"
    /\ Len(elements) = 2 /\ Len(payload) = 1
    /\ elements[1] # cover[1]
    /\ elements[2] = cover[2]

C7_DecodeZeroPadding ==
    (scheme = "grass" /\ pc = "decoded")
        => LET left == Slice(BitsRead(elements, index), 22, num_bits)
           IN /\ bytes = BitsToBytes(PadToByte(left))
              /\ Len(bytes) = (Len(left) + 7) \div 8

(***************************************************************************)
(* C8: Fractional decode with too few carriers.  When fewer than four      *)
(* carriers exist, or the header's storedBytes + 4 exceeds their number,   *)
(* floats_to_bytes does not crash: it ends in an InsufficientCarriers      *)
(* outcome that hands back the bytes recovered so far.                     *)
(***************************************************************************)
C8_InsufficientCarriers ==
    (scheme = "floats" /\ pc \notin {"cover", "encoded"}
     /\ (Len(floats) < 4 \/ HeaderValue(floats) + 4 > Len(floats)))
        => /\ pc \notin {"crashed", "crashed_cover"}
           /\ outcome = "InsufficientCarriers"

(***************************************************************************)
(* C9: Whitespace over-capacity tail.  When there are more glyphs than     *)
(* lines, every line carries its glyph and the line terminator, the        *)
(* glyphs left over follow as one bare final fragment, extraction returns  *)
(* the line glyphs followed by that fragment, and decoding recovers the    *)
(* payload.                                                                *)
(***************************************************************************)
C9_OverCapacityTail ==
    (scheme = "whitespace" /\ 8 * Len(payload) > Len(cover_list))
        => LET glyphs == bytes_to_whitespace(payload)
               n      == Len(cover_list)
               pieces == Split(encoded_text)
           IN /\ pc \in {"encoded", "extracted", "decoded"}
                    => /\ Len(pieces) = n + 1
                       /\ \A i \in 1..n : pieces[i] = Append(cover_list[i], glyphs[i])
                       /\ pieces[n + 1] = SubSeq(glyphs, n + 1, Len(glyphs))
              /\ pc # "crashed"
              /\ pc \in {"extracted", "decoded"} => whitespace = glyphs
              /\ pc = "decoded" => bytes = payload

\* one byte was hidden in fewer than eight lines and recovered
C9_Witness ==
    /\ scheme = "whitespace" /\ pc = "decoded"
    /\ Len(payload) = 1 /\ Len(cover_list) = 4
    /\ Len(Split(encoded_text)[5]) = 4
    /\ bytes = payload

(***************************************************************************)
(* C10: Field decode stop point.  bytes_from_grasses reads the elements    *)
(* in order and stops at the first one at which the bits accumulated from  *)
(* element 0 on, header included, number storedBits + 22 or more: it       *)
(* reads no element after that one.                                        *)
(***************************************************************************)
C10_DecodeStopPoint ==
    (scheme = "grass" /\ pc = "reading")
        => \A k \in 1..(index - 1) : Len(BitsRead(elements, k)) < num_bits

(***************************************************************************)
(* C11: Whitespace decode final-fragment check.  When every line before    *)
(* the last ends in a space or tab, extract_whitespace appends the final   *)
(* fragment only if all its characters are spaces or tabs and discards it  *)
(* otherwise, so the string it returns holds spaces and tabs only.         *)
(***************************************************************************)
C11_FinalFragmentCheck ==
    (scheme = "whitespace"
     /\ pc \in {"extracted", "decoded", "file_extracted", "file_decoded"})
        => LET pieces == Split(encoded_text)
               final  == pieces[Len(pieces)]
               before == SubSeq(pieces, 1, Len(pieces) - 1)
           IN /\ \A i \in 1..Len(whitespace) : whitespace[i] \in Glyphs
              /\ (\A i \in 1..Len(before) :
                     before[i] # <<>> /\ before[i][Len(before[i])] \in Glyphs)
                    => whitespace
                         = [i \in 1..Len(before) |-> before[i][Len(before[i])]]
                           \o (IF \A j \in 1..Len(final) : final[j] \in Glyphs
                               THEN final ELSE <<>>)

(***************************************************************************)
(* C12: Per-carrier width agreement.  For every carrier bytes_to_grasses   *)
(* has walked, in order, set_grass_bits returned and moved the bit cursor  *)
(* by exactly 70 if the carrier has the age child and by exactly 50 if it  *)
(* has not; get_grass_bits on the written carrier returns exactly that     *)
(* many bits, equal to the bits of the input at the carrier's cursor       *)
(* position, zeros standing for the bits past the end of the input; and    *)
(* the health written is in 5..68.                                         *)
(***************************************************************************)
C12_WidthAgreement ==
    (scheme = "grass" /\ pc \in {"writing", "encoded", "crashed"})
        => /\ pc # "crashed"
           /\ bit_index = CursorAfter(cover, index)
           /\ \A k \in 1..index :
                 LET from  == CursorAfter(cover, k - 1)
                     width == IF cover[k].hasAge THEN 70 ELSE 50
                     read  == get_grass_bits(elements[k])
                 IN /\ CursorAfter(cover, k) - from = width
                    /\ elements[k].hasAge = cover[k].hasAge
                    /\ Len(read) = width
                    /\ read = Slice(bits \o Zeros(70), from, from + width)
                    /\ ParseNat(elements[k].health) \in 5..68

\* seven bytes in two carriers: the first, without age, took 50 bits; the
\* second took the 28 bits left and 42 zeros
C12_Witness ==
    /\ scheme = "grass" /\ pc = "encoded"
    /\ Len(cover) = 2 /\ ~cover[1].hasAge /\ cover[2].hasAge
    /\ Len(payload) = 7 /\ Len(bits) = 78
    /\ index = 2 /\ bit_index = 120
    /\ Len(get_grass_bits(elements[1])) = 50
    /\ get_grass_bits(elements[2]) = SliceFrom(bits, 50) \o Zeros(42)
    /\ elements[2] # cover[2]

=============================================================================
